---- MODULE Spec2Model ----
(***************************************************************************)
(* yt-transcribe: the channel batch (run_channel_mode), its two dispatch   *)
(* modes (_run_sequential, _run_parallel), the single-item pipeline        *)
(* (transcribe_single), the output layout (sanitize, VideoOutputDir) and   *)
(* the ledger scan (get_transcribed_ids), over a small file system.        *)
(*                                                                         *)
(* Text is a sequence of one-character strings, so that sanitize is        *)
(* computed character by character as the code does.                       *)
(***************************************************************************)
EXTENDS Integers, Sequences, FiniteSets, TLC

(***************************************************************************)
(* Bounds of the model.                                                    *)
(***************************************************************************)
\* longest discovery list the channel listing returns
MaxD == 3
\* largest --amount
MaxAmount == 2
\* largest --workers
MaxWorkers == 2
\* batch runs started in succession on the same output tree; the last one
\* is followed up to its plan
MaxRuns == 2
\* collaborator calls that fail inside the pipelines of one batch run
MaxFaults == 1
\* longest name given to sanitize on its own
MaxName == 3
\* most lines of an info.txt given to the ledger scan on its own
MaxLines == 2
\* longest listing given to the probe loop on its own
MaxProbed == 6

(***************************************************************************)
(* output.py: sanitize                                                     *)
(***************************************************************************)
LowerSeq == << "a","b","c","d","e","f","g","h","i","j","k","l","m",
               "n","o","p","q","r","s","t","u","v","w","x","y","z" >>
UpperSeq == << "A","B","C","D","E","F","G","H","I","J","K","L","M",
               "N","O","P","Q","R","S","T","U","V","W","X","Y","Z" >>
Digits == { "0","1","2","3","4","5","6","7","8","9" }

\* str.lower() on one character
ToLower(c) ==
    IF \E k \in 1..Len(UpperSeq) : UpperSeq[k] = c
    THEN LowerSeq[CHOOSE k \in 1..Len(UpperSeq) : UpperSeq[k] = c]
    ELSE c

\* the character class [a-z0-9]
IsAlnum(c) == c \in Digits \/ \E k \in 1..Len(LowerSeq) : LowerSeq[k] = c

\* s.lower()
Lower(s) == [k \in 1..Len(s) |-> ToLower(s[k])]

\* re.sub(r"[^a-z0-9]", "_", s)
Underscore(s) == [k \in 1..Len(s) |-> IF IsAlnum(s[k]) THEN s[k] ELSE "_"]

\* re.sub(r"_+", "_", s)
RECURSIVE Collapse(_)
Collapse(s) ==
    IF Len(s) <= 1 THEN s
    ELSE IF s[1] = "_" /\ s[2] = "_" THEN Collapse(Tail(s))
    ELSE << s[1] >> \o Collapse(Tail(s))

\* s.strip("_")
RECURSIVE StripLeft(_)
StripLeft(s) ==
    IF s # << >> /\ s[1] = "_" THEN StripLeft(Tail(s)) ELSE s

RECURSIVE StripRight(_)
StripRight(s) ==
    IF s # << >> /\ s[Len(s)] = "_" THEN StripRight(SubSeq(s, 1, Len(s) - 1)) ELSE s

Strip(s) == StripRight(StripLeft(s))

\* sanitize that strips the underscores before it maps the other characters
sanitizeStripFirst(name) == Collapse(Underscore(Strip(Lower(name))))

sanitize(name) == Strip(Collapse(Underscore(Lower(name))))

(***************************************************************************)
(* The media source: the ids a channel lists and the metadata of each.     *)
(***************************************************************************)
IdA == << "a", "1" >>
IdB == << "b", "2" >>
IdC == << "C", "3" >>
IdD == << "d", "4" >>
Ids == { IdA, IdB, IdC, IdD }

\* what fetch_video_info returns for an id when it succeeds: two items of
\* one channel whose titles differ only in case and punctuation, a third
\* item of that channel whose title is made of symbols only, and an item
\* whose channel name is made of symbols only
VideoInfo(vid) ==
    CASE vid = IdA -> [title |-> << "H", "i" >>,      id |-> vid, channel |-> << "C", "h" >>]
      [] vid = IdB -> [title |-> << "h", "i", "!" >>, id |-> vid, channel |-> << "C", "h" >>]
      [] vid = IdC -> [title |-> << "?" >>,           id |-> vid, channel |-> << "C", "h" >>]
      [] OTHER     -> [title |-> << "Y", "o" >>,      id |-> vid, channel |-> << "-", "-" >>]

UnknownChannel == << "u","n","k","n","o","w","n","_","c","h","a","n","n","e","l" >>

\* `x or y` on strings
OrElse(x, y) == IF x # << >> THEN x ELSE y

(***************************************************************************)
(* output.py: VideoOutputDir, write_info, get_transcribed_ids              *)
(***************************************************************************)
\* VideoOutputDir.__init__: base_dir / ch_dir / vid_dir, as the pair of
\* segments below the base directory
ChDir(meta) == OrElse(sanitize(meta.channel), UnknownChannel)
VidDir(meta) == OrElse(sanitize(meta.title), sanitize(meta.id))
OutPath(meta) == << ChDir(meta), VidDir(meta) >>

\* the output directory of each item, from the metadata its fetch returns
PathOf == [v \in Ids |-> OutPath(VideoInfo(v))]

\* every output directory an item of the model can get
Locs == { PathOf[v] : v \in Ids }

\* the content of info.yaml: absent, emptied by a write that failed after
\* the file was truncated, provisional (four base keys) or final (with
\* word_count and transcribed_at)
NoInfo == [id |-> << >>, state |-> "none"]
Malformed == [id |-> << >>, state |-> "malformed"]
InfoRecord(meta, final) ==
    [id |-> meta.id, state |-> IF final THEN "final" ELSE "provisional"]

\* one output directory: whether it exists, its info.yaml, its audio file
EmptyDir == [dir |-> FALSE, info |-> NoInfo, audio |-> FALSE]

\* get_transcribed_ids(base / root): the id of every info.yaml below root
\* that parses to a mapping with an id key; yaml.dump and yaml.safe_load
\* give back the id string that was written
get_transcribed_ids(files, root) ==
    { files[l].info.id : l \in { m \in Locs : m[1] = root
                                   /\ files[m].dir
                                   /\ files[m].info.state \in {"provisional", "final"} } }

(***************************************************************************)
(* output.py: get_transcribed_ids over sidecar files of both formats       *)
(***************************************************************************)
\* what reading and parsing a file can come to, beyond the records above:
\* read_text raises; safe_load returns something that is no mapping; it
\* returns a mapping without an id key
Unreadable == [id |-> << >>, state |-> "unreadable"]
Scalar == [id |-> << >>, state |-> "scalar"]
NoIdMapping == [id |-> << >>, state |-> "noid"]

\* lines 61-66 for one info.yaml: the try block either raises or adds the
\* id of a mapping that has one
ReadYaml(file) ==
    [raised |-> file.state \in {"unreadable", "malformed"},
     ids    |-> IF file.state \in {"provisional", "final"} THEN { file.id } ELSE {}]

\* line.startswith(prefix)
StartsWith(line, prefix) ==
    Len(line) >= Len(prefix) /\ SubSeq(line, 1, Len(prefix)) = prefix

\* s.strip(c) for one character c
RECURSIVE LStrip(_, _)
LStrip(s, c) == IF s # << >> /\ s[1] = c THEN LStrip(Tail(s), c) ELSE s

RECURSIVE RStrip(_, _)
RStrip(s, c) == IF s # << >> /\ s[Len(s)] = c THEN RStrip(SubSeq(s, 1, Len(s) - 1), c) ELSE s

StripOf(s, c) == RStrip(LStrip(s, c), c)

IdPrefix == << "i", "d", ":", " " >>

\* lines 70-73 for one line: line[4:].strip().strip('"') of a line that
\* starts with "id: ", if that is not empty
LineIds(line) ==
    IF StartsWith(line, IdPrefix)
    THEN LET vid == StripOf(StripOf(SubSeq(line, Len(IdPrefix) + 1, Len(line)), " "), "\"")
         IN  IF vid # << >> THEN { vid } ELSE {}
    ELSE {}

\* lines 68-75 for one info.txt: the file is its lines, or unreadable
ReadTxt(file) ==
    [raised |-> file.state = "unreadable",
     ids    |-> IF file.state = "lines"
                THEN UNION { LineIds(file.lines[k]) : k \in 1..Len(file.lines) }
                ELSE {}]

(***************************************************************************)
(* channel.py: the planning part of run_channel_mode                       *)
(***************************************************************************)
\* all_ids[:5]
ProbeLimit == 5

Min(x, y) == IF x <= y THEN x ELSE y

\* Pending stopping at the first id that is done
RECURSIVE PendingUntilDone(_, _)
PendingUntilDone(all_ids, done_ids) ==
    IF all_ids = << >> \/ all_ids[1] \in done_ids THEN << >>
    ELSE << all_ids[1] >> \o PendingUntilDone(Tail(all_ids), done_ids)

\* [vid for vid in all_ids if vid not in done_ids]
RECURSIVE Pending(_, _)
Pending(all_ids, done_ids) ==
    IF all_ids = << >> THEN << >>
    ELSE IF all_ids[1] \in done_ids THEN Pending(Tail(all_ids), done_ids)
    ELSE << all_ids[1] >> \o Pending(Tail(all_ids), done_ids)

\* ProcessCount without the amount > 0 test
ProcessCountNoZeroTest(pending_ids, amt) ==
    IF Len(pending_ids) > amt THEN amt ELSE Len(pending_ids)

\* process_count = len(pending_ids), lowered to amount when amount > 0
ProcessCount(pending_ids, amt) ==
    IF amt > 0 /\ Len(pending_ids) > amt THEN amt ELSE Len(pending_ids)

\* to_process = pending_ids[:process_count]
ToProcess(pending_ids, amt) == SubSeq(pending_ids, 1, ProcessCount(pending_ids, amt))

\* ch_dir = sanitize(channel_name) or "unknown_channel"
RootOf(channel_name) == OrElse(sanitize(channel_name), UnknownChannel)

(***************************************************************************)
(* State                                                                   *)
(***************************************************************************)
VARIABLES
    all_ids,      \* what fetch_channel_video_ids returns for the channel
    amount,       \* --amount
    workers,      \* --workers
    run,          \* number of the batch run in progress
    mpc,          \* position of run_channel_mode
    ch_dir,       \* the channel directory the run scans
    done_ids,     \* the ledger scan's result
    pending_ids,  \* the discovered ids that are not done, in order
    to_process,   \* the planned batch
    pc,           \* position of each planned item's transcribe_single call
    res,          \* the TranscribeResult each call returned
    failAt,       \* the step at which a collaborator failed in each call
    passed,       \* the steps of each call that returned without an error
    clobbered,    \* the final record a call's provisional write overwrote
    order,        \* the calls in the order they returned
    early,        \* the futures already finished when as_completed is called
    results,      \* the list _run_sequential / _run_parallel builds
    fs,           \* the output tree
    faults,       \* collaborator failures in this run's pipelines so far
    prev,         \* how the previous run's calls ended
    exit_code,    \* the exit status of the process, once it has ended
    text,         \* a name given to sanitize
    clean,        \* what sanitize made of it
    again,        \* what sanitize made of that
    tree,         \* the sidecar files of a directory tree given to the ledger scan
    spc,          \* position of that scan
    visited,      \* the sidecar files it has read
    ids,          \* the set it builds
    fetched,      \* what fetch_video_info does for each listed id when probed
    probes,       \* the positions of the listing probed so far, in order
    channel_name, \* the probe loop's channel_name
    video_meta,   \* the VideoMeta given to VideoOutputDir
    out           \* the path VideoOutputDir made of it

vars == << all_ids, amount, workers, run, mpc, ch_dir, done_ids, pending_ids, to_process,
           pc, res, failAt, passed, clobbered, order, early, results, fs, faults, prev,
           exit_code, text, clean, again, tree, spc, visited, ids,
           fetched, probes, channel_name, video_meta, out >>

Slots == 1..MaxD

\* the channel's tab, newest first; a listing is the part of it that passes
\* the duration and date filters, each video at most once, in tab order
ChannelTab == << IdA, IdB, IdC, IdD >>

RECURSIVE Sublists(_)
Sublists(s) ==
    IF s = << >> THEN { << >> }
    ELSE LET rest == Sublists(Tail(s))
         IN  rest \cup { << s[1] >> \o t : t \in rest }

NoResult == [success |-> FALSE, video_id |-> << >>, title |-> << >>]
NoPrev == [returned |-> FALSE, unrecorded |-> FALSE, late |-> FALSE,
           distinct |-> TRUE, midway |-> {}]

Fresh ==
    /\ mpc = "start"
    /\ exit_code = << >>
    /\ ch_dir = << >>
    /\ done_ids = {}
    /\ pending_ids = << >>
    /\ to_process = << >>
    /\ pc = [i \in Slots |-> "idle"]
    /\ res = [i \in Slots |-> NoResult]
    /\ failAt = [i \in Slots |-> "none"]
    /\ passed = [i \in Slots |-> {}]
    /\ clobbered = [i \in Slots |-> NoInfo]
    /\ order = << >>
    /\ early = {}
    /\ results = << >>
    /\ faults = 0

\* no call of sanitize or of the ledger scan on its own is under way
AsideIdle ==
    /\ text = << >>
    /\ clean = << >>
    /\ again = << >>
    /\ tree = << >>
    /\ spc = "off"
    /\ visited = {}
    /\ ids = {}
    /\ fetched = << >>
    /\ probes = << >>
    /\ channel_name = << >>
    /\ video_meta = << >>
    /\ out = << >>

Init ==
    /\ all_ids \in { s \in Sublists(ChannelTab) : Len(s) <= MaxD }
    /\ amount \in 0..MaxAmount
    /\ workers \in 1..MaxWorkers
    /\ run = 1
    /\ fs = [l \in Locs |-> EmptyDir]
    /\ prev = NoPrev
    /\ Fresh
    /\ AsideIdle

(***************************************************************************)
(* channel.py: run_channel_mode up to the dispatch                         *)
(***************************************************************************)
Planning == << ch_dir, done_ids, pending_ids, to_process >>
Calls == << pc, res, failAt, passed, clobbered, order, faults >>
Config == << all_ids, amount, workers, run, prev >>
ProbeVars == << fetched, probes, channel_name >>
LayoutVars == << video_meta, out >>
Aside == << text, clean, again, tree, spc, visited, ids, ProbeVars, LayoutVars >>

\* cli.py lines 47-50: click.UsageError ends the process with status 2
UsageError ==
    /\ mpc = "start"
    /\ mpc' = "usage"
    /\ exit_code' = << 2 >>
    /\ UNCHANGED << Config, Aside, Planning, Calls, early, results, fs >>

\* cli.py lines 58-67: get_backend fails (SystemExit(1)) or resolve_model
\* raises (an uncaught exception ends the interpreter with status 1)
BackendFails ==
    /\ mpc = "start"
    /\ mpc' = "nobackend"
    /\ exit_code' = << 1 >>
    /\ UNCHANGED << Config, Aside, Planning, Calls, early, results, fs >>

\* line 31: fetch_channel_video_ids is called outside any try block, so a
\* listing failure leaves run_channel_mode as an exception
ListingFails ==
    /\ mpc = "start"
    /\ mpc' = "raised"
    /\ UNCHANGED << Config, exit_code, Aside, Planning, Calls, early, results, fs >>

\* Discover without the early return for an empty listing
DiscoverThenProbe ==
    /\ mpc = "start"
    /\ mpc' = "probe"
    /\ UNCHANGED << Config, exit_code, Aside, Planning, Calls, early, results, fs >>

\* lines 31-35: the listing returns; an empty listing returns [] at once
Discover ==
    /\ mpc = "start"
    /\ mpc' = IF all_ids = << >> THEN "returned" ELSE "probe"
    /\ UNCHANGED << Config, exit_code, Aside, Planning, Calls, early, results, fs >>

\* ProbeChannel without the try block: the first probe that fails ends the run
ProbeChannelUncaught(hit) ==
    /\ mpc = "probe"
    /\ ch_dir' = IF hit = 1 THEN RootOf(VideoInfo(all_ids[1]).channel) ELSE ch_dir
    /\ mpc' = IF hit = 1 THEN "scan" ELSE "raised"
    /\ UNCHANGED << Config, exit_code, Aside, done_ids, pending_ids, to_process, Calls, early, results, fs >>

\* lines 39-48: the channel name is the channel of the first of
\* all_ids[:5] whose metadata fetch succeeds (hit = its position), or ""
\* when every one of them fails (hit = 0)
ProbeChannel(hit) ==
    /\ mpc = "probe"
    /\ LET resolved == IF hit = 0 THEN << >> ELSE VideoInfo(all_ids[hit]).channel
       IN  ch_dir' = RootOf(resolved)
    /\ mpc' = "scan"
    /\ UNCHANGED << Config, exit_code, Aside, done_ids, pending_ids, to_process, Calls, early, results, fs >>

\* lines 51-77: ledger scan, pending list, cap; nothing pending returns []
Plan ==
    /\ mpc = "scan"
    /\ done_ids' = get_transcribed_ids(fs, ch_dir)
    /\ pending_ids' = Pending(all_ids, done_ids')
    /\ to_process' = ToProcess(pending_ids', amount)
    /\ mpc' = IF pending_ids' = << >> THEN "returned" ELSE "dispatch"
    /\ UNCHANGED << Config, exit_code, Aside, ch_dir, Calls, early, results, fs >>

\* lines 79-82: workers <= 1 runs the items one after the other
DispatchSequential ==
    /\ mpc = "dispatch"
    /\ run < MaxRuns
    /\ workers <= 1
    /\ mpc' = "sequential"
    /\ UNCHANGED << Config, exit_code, Aside, Planning, Calls, early, results, fs >>

\* lines 113-121: every planned item is submitted to the executor, in
\* order; the pool's queue is first in, first out
DispatchParallel ==
    /\ mpc = "dispatch"
    /\ run < MaxRuns
    /\ workers > 1
    /\ mpc' = "submitted"
    /\ pc' = [i \in Slots |-> IF i <= Len(to_process) THEN "queued" ELSE pc[i]]
    /\ UNCHANGED << Config, exit_code, Aside, Planning, res, failAt, passed, clobbered, order, faults, early, results, fs >>

(***************************************************************************)
(* transcriber.py: transcribe_single, one action per collaborator call     *)
(***************************************************************************)
Planned == 1..Len(to_process)
Meta(i) == VideoInfo(to_process[i])
Path(i) == PathOf[to_process[i]]

\* the calls that have started and not yet returned
Running == { i \in Planned : pc[i] \notin {"idle", "queued", "done", "raised"} }

\* a return statement of transcribe_single
Return(i, result, step) ==
    /\ pc' = [pc EXCEPT ![i] = "done"]
    /\ res' = [res EXCEPT ![i] = result]
    /\ failAt' = [failAt EXCEPT ![i] = step]
    /\ faults' = IF step = "none" THEN faults ELSE faults + 1
    /\ order' = Append(order, i)

\* line 45: TranscribeResult(success=False, error=str(e))
FetchFailure == [success |-> FALSE, video_id |-> << >>, title |-> << >>]
\* lines 82, 85: TranscribeResult(success=False, video_id=info.id, title=info.title, ...)
Failure(info) == [success |-> FALSE, video_id |-> info.id, title |-> info.title]
\* line 78: TranscribeResult(success=True, video_id=info.id, title=info.title)
Success(info) == [success |-> TRUE, video_id |-> info.id, title |-> info.title]

\* OnFetchError without the except clause: the exception leaves the call
OnFetchErrorUncaught(i) ==
    /\ pc' = [pc EXCEPT ![i] = "raised"]
    /\ failAt' = [failAt EXCEPT ![i] = "fetch"]
    /\ faults' = faults + 1
    /\ UNCHANGED << res, passed, order, clobbered, fs >>

\* OnFetchError with the output directory created before the fetch
OnFetchErrorMakesDir(i) ==
    /\ Return(i, FetchFailure, "fetch")
    /\ fs' = [fs EXCEPT ![Path(i)].dir = TRUE]
    /\ UNCHANGED << passed, clobbered >>

\* lines 43-45: except Exception around fetch_video_info
OnFetchError(i) ==
    /\ Return(i, FetchFailure, "fetch")
    /\ UNCHANGED << passed, clobbered, fs >>

\* OnError returning the result of a failed fetch, without id and title
OnErrorAnonymous(i, step) ==
    /\ Return(i, FetchFailure, step)
    /\ UNCHANGED passed

\* lines 80-85: except WhisperError / except Exception around steps 2-7
OnError(i, step) ==
    /\ Return(i, Failure(Meta(i)), step)
    /\ UNCHANGED passed

\* the collaborator call returned: on to the next statement
Goto(i, next) ==
    /\ pc' = [pc EXCEPT ![i] = next]
    /\ passed' = [passed EXCEPT ![i] = @ \cup { pc[i] }]
    /\ UNCHANGED << res, failAt, order, faults >>

\* lines 41-45: fetch_video_info(url)
Fetch(i, ok) ==
    /\ pc[i] = "fetch"
    /\ IF ok THEN Goto(i, "mkdir") /\ UNCHANGED << clobbered, fs >>
             ELSE OnFetchError(i)
    /\ UNCHANGED << Config, exit_code, Aside, mpc, Planning, early, results >>

\* lines 50-51: VideoOutputDir(config.output_dir, meta) creates the
\* directory (parents=True, exist_ok=True)
MakeDir(i, ok) ==
    /\ pc[i] = "mkdir"
    /\ IF ok THEN /\ fs' = [fs EXCEPT ![Path(i)].dir = TRUE]
                  /\ Goto(i, "write1")
             ELSE /\ OnError(i, "mkdir")
                  /\ UNCHANGED fs
    /\ UNCHANGED << Config, exit_code, Aside, mpc, Planning, clobbered, early, results >>

\* output.py lines 41-52: write_text either replaces the file, or raises
\* before opening it (kept = TRUE) or after truncating it (kept = FALSE)
WriteInfo(files, path, record, ok, kept) ==
    IF ok THEN [files EXCEPT ![path].info = record]
    ELSE IF kept \/ ~files[path].dir THEN files
    ELSE [files EXCEPT ![path].info = Malformed]

\* WriteProvisional without the write: the record is written only once the
\* transcript exists
WriteProvisionalSkipped(i, ok, kept) ==
    /\ pc[i] = "write1"
    /\ IF ok THEN Goto(i, "download") ELSE OnError(i, "write1")
    /\ UNCHANGED << Config, exit_code, Aside, mpc, Planning, clobbered, early, results, fs >>

\* line 53: out.write_info(), the provisional record
WriteProvisional(i, ok, kept) ==
    /\ pc[i] = "write1"
    /\ LET written == WriteInfo(fs, Path(i), InfoRecord(Meta(i), FALSE), ok, kept)
           before == fs[Path(i)].info
       IN  /\ fs' = written
           /\ clobbered' = [clobbered EXCEPT ![i] =
                  IF before.state = "final" /\ written[Path(i)].info # before
                  THEN before ELSE @]
    /\ IF ok THEN Goto(i, "download") ELSE OnError(i, "write1")
    /\ UNCHANGED << Config, exit_code, Aside, mpc, Planning, early, results >>

\* line 56: download_audio(url, out.path, out.basename, audio_format)
Download(i, ok) ==
    /\ pc[i] = "download"
    /\ IF ok THEN /\ fs' = [fs EXCEPT ![Path(i)].audio = TRUE]
                  /\ Goto(i, "transcribe")
             ELSE /\ OnError(i, "download")
                  /\ UNCHANGED fs
    /\ UNCHANGED << Config, exit_code, Aside, mpc, Planning, clobbered, early, results >>

\* Transcribe that goes on to the final record when the engine fails
TranscribeUnchecked(i, ok) ==
    /\ pc[i] = "transcribe"
    /\ IF ok /\ fs[Path(i)].audio
       THEN Goto(i, "write2")
       ELSE /\ pc' = [pc EXCEPT ![i] = "write2"]
            /\ faults' = faults + 1
            /\ UNCHANGED << res, failAt, passed, order >>
    /\ UNCHANGED << Config, exit_code, Aside, mpc, Planning, clobbered, early, results, fs >>

\* lines 62-69: backend.transcribe reads the audio file; it cannot succeed
\* when the file is not there
Transcribe(i, ok) ==
    /\ pc[i] = "transcribe"
    /\ IF ok /\ fs[Path(i)].audio THEN Goto(i, "write2")
                                  ELSE OnError(i, "transcribe")
    /\ UNCHANGED << Config, exit_code, Aside, mpc, Planning, clobbered, early, results, fs >>

\* lines 71-72: out.write_info(word_count=..., transcribed_at=...)
WriteFinal(i, ok, kept) ==
    /\ pc[i] = "write2"
    /\ fs' = WriteInfo(fs, Path(i), InfoRecord(Meta(i), TRUE), ok, kept)
    /\ IF ok THEN Goto(i, "unlink") ELSE OnError(i, "write2")
    /\ UNCHANGED << Config, exit_code, Aside, mpc, Planning, clobbered, early, results >>

\* cli.py line 22: --keep-audio is off unless given
keep_audio == FALSE

\* lines 74-78: audio_path.unlink(missing_ok=True), then the success result
Cleanup(i, ok) ==
    /\ pc[i] = "unlink"
    /\ IF keep_audio THEN /\ Return(i, Success(Meta(i)), "none")
                          /\ UNCHANGED << passed, fs >>
       ELSE IF ok THEN /\ fs' = [fs EXCEPT ![Path(i)].audio = FALSE]
                       /\ passed' = [passed EXCEPT ![i] = @ \cup { "unlink" }]
                       /\ Return(i, Success(Meta(i)), "none")
       ELSE /\ OnError(i, "unlink")
            /\ UNCHANGED fs
    /\ UNCHANGED << Config, exit_code, Aside, mpc, Planning, clobbered, early, results >>

(***************************************************************************)
(* channel.py: _run_sequential                                             *)
(***************************************************************************)
\* the result record with the planned item whose call produced it
Entry(i) == [item |-> i, success |-> res[i].success,
             video_id |-> res[i].video_id, title |-> res[i].title]

\* lines 98-101: the loop calls transcribe_single for the next item
SequentialCall(i) ==
    /\ mpc = "sequential"
    /\ i \in Planned
    /\ i = Len(results) + 1
    /\ pc[i] = "idle"
    /\ pc' = [pc EXCEPT ![i] = "fetch"]
    /\ UNCHANGED << Config, exit_code, Aside, mpc, Planning, res, failAt, passed, clobbered, order, faults, early, results, fs >>

\* SequentialAppend putting the newest result first
SequentialAppendFront(i) ==
    /\ mpc = "sequential"
    /\ i \in Planned
    /\ i = Len(results) + 1
    /\ pc[i] = "done"
    /\ results' = << Entry(i) >> \o results
    /\ UNCHANGED << Config, exit_code, Aside, mpc, Planning, Calls, early, fs >>

\* SequentialAppend that calls transcribe_single again after a failure
SequentialAppendRetry(i) ==
    /\ mpc = "sequential"
    /\ i \in Planned
    /\ i = Len(results) + 1
    /\ pc[i] = "done"
    /\ IF res[i].success
       THEN results' = Append(results, Entry(i)) /\ pc' = pc
       ELSE results' = results /\ pc' = [pc EXCEPT ![i] = "idle"]
    /\ UNCHANGED << Config, exit_code, Aside, mpc, Planning, res, failAt, passed, clobbered,
                    order, faults, early, fs >>

\* line 102: results.append(result), whatever the result says
SequentialAppend(i) ==
    /\ mpc = "sequential"
    /\ i \in Planned
    /\ i = Len(results) + 1
    /\ pc[i] = "done"
    /\ results' = Append(results, Entry(i))
    /\ UNCHANGED << Config, exit_code, Aside, mpc, Planning, Calls, early, fs >>

\* SequentialReturn leaving the loop after the first result
SequentialReturnFirst ==
    /\ mpc = "sequential"
    /\ Len(results) >= 1
    /\ mpc' = "returned"
    /\ UNCHANGED << Config, exit_code, Aside, Planning, Calls, early, results, fs >>

\* line 103 and run_channel_mode lines 84-88: the loop is over
SequentialReturn ==
    /\ mpc = "sequential"
    /\ Len(results) = Len(to_process)
    /\ mpc' = "returned"
    /\ UNCHANGED << Config, exit_code, Aside, Planning, Calls, early, results, fs >>

(***************************************************************************)
(* channel.py: _run_parallel                                               *)
(***************************************************************************)
\* the tag without the modulus: the number of the item
WorkerIdNoWrap(i) == i

\* line 119: worker_id = (i % workers) + 1, for the item at index i of
\* enumerate(video_ids), which is planned item i + 1
WorkerId(i) == ((i - 1) % workers) + 1

\* WorkerStart by a pool that starts a thread for every submitted call
WorkerStartUnbounded(i) ==
    /\ mpc \in {"submitted", "collect"}
    /\ i \in Planned
    /\ pc[i] = "queued"
    /\ \A j \in 1..(i - 1) : pc[j] # "queued"
    /\ pc' = [pc EXCEPT ![i] = "fetch"]
    /\ UNCHANGED << Config, exit_code, Aside, mpc, Planning, res, failAt, passed, clobbered, order, faults, early, results, fs >>

\* ThreadPoolExecutor(max_workers=workers): a free thread takes the oldest
\* queued call
WorkerStart(i) ==
    /\ mpc \in {"submitted", "collect"}
    /\ i \in Planned
    /\ pc[i] = "queued"
    /\ \A j \in 1..(i - 1) : pc[j] # "queued"
    /\ Cardinality(Running) < workers
    /\ pc' = [pc EXCEPT ![i] = "fetch"]
    /\ UNCHANGED << Config, exit_code, Aside, mpc, Planning, res, failAt, passed, clobbered, order, faults, early, results, fs >>

\* line 123: as_completed(futures) first takes the futures that are
\* already finished, as a set
AsCompleted ==
    /\ mpc = "submitted"
    /\ mpc' = "collect"
    /\ early' = { i \in Planned : pc[i] = "done" }
    /\ UNCHANGED << Config, exit_code, Aside, Planning, Calls, results, fs >>

Collected == { results[k].item : k \in 1..Len(results) }

\* Yieldable for an as_completed that yields finished futures in any order
YieldableAnyFinished == { i \in Planned : pc[i] = "done" } \ Collected

\* the futures as_completed can yield next: any of the already finished
\* ones while some are left, then the others in the order they finish
Yieldable ==
    IF early \ Collected # {} THEN early \ Collected
    ELSE LET late == { k \in 1..Len(order) : order[k] \notin Collected }
         IN  IF late = {} THEN {}
             ELSE { order[CHOOSE k \in late : \A m \in late : k <= m] }

\* lines 123-124: results.append(future.result())
Collect(i) ==
    /\ mpc = "collect"
    /\ i \in Yieldable
    /\ results' = Append(results, Entry(i))
    /\ UNCHANGED << Config, exit_code, Aside, mpc, Planning, Calls, early, fs >>

\* ParallelReturn that stops collecting as soon as no finished future waits
ParallelReturnEarly ==
    /\ mpc = "collect"
    /\ Yieldable = {}
    /\ mpc' = "returned"
    /\ UNCHANGED << Config, exit_code, Aside, Planning, Calls, early, results, fs >>

\* lines 123-126: as_completed is exhausted when every future was yielded;
\* the with block then joins the pool's threads
ParallelReturn ==
    /\ mpc = "collect"
    /\ Collected = Planned
    /\ mpc' = "returned"
    /\ UNCHANGED << Config, exit_code, Aside, Planning, Calls, early, results, fs >>

(***************************************************************************)
(* cli.py: main after run_channel_mode                                     *)
(***************************************************************************)
\* Exit that reports a failure only when every item failed
ExitAllFailed ==
    /\ mpc = "returned"
    /\ exit_code = << >>
    /\ exit_code' = IF results # << >> /\ \A k \in 1..Len(results) : ~results[k].success
                    THEN << 1 >> ELSE << 0 >>
    /\ UNCHANGED << Config, Aside, mpc, Planning, Calls, early, results, fs >>

\* lines 88-89: SystemExit(1) if any result is not a success; otherwise
\* main returns and the status is 0
Exit ==
    /\ mpc = "returned"
    /\ exit_code = << >>
    /\ exit_code' = IF \E k \in 1..Len(results) : ~results[k].success
                    THEN << 1 >> ELSE << 0 >>
    /\ UNCHANGED << Config, Aside, mpc, Planning, Calls, early, results, fs >>

\* lines 80-87: nothing catches an exception of run_channel_mode; the
\* interpreter prints the traceback and ends with status 1
ExitUncaught ==
    /\ mpc = "raised"
    /\ exit_code = << >>
    /\ exit_code' = << 1 >>
    /\ UNCHANGED << Config, Aside, mpc, Planning, Calls, early, results, fs >>

(***************************************************************************)
(* The next invocation of the program on the same output tree              *)
(***************************************************************************)
\* the steps whose failure leaves the item without a readable record, and
\* the steps that fail with the provisional or final record in place
RecordSteps == {"fetch", "mkdir", "write1", "write2"}
LateSteps == {"download", "transcribe", "unlink"}

NextRun ==
    /\ exit_code # << >>
    /\ run < MaxRuns
    /\ run' = run + 1
    /\ prev' = [returned   |-> mpc = "returned",
                unrecorded |-> \E i \in Planned : failAt[i] \in RecordSteps,
                late       |-> \E i \in Planned : failAt[i] \in LateSteps,
                distinct   |-> \A i, j \in Planned : i # j => Path(i) # Path(j),
                midway     |-> { to_process[i] : i \in { j \in Planned :
                                      failAt[j] \in {"download", "transcribe"} } }]
    /\ mpc' = "start"
    /\ exit_code' = << >>
    /\ ch_dir' = << >>
    /\ done_ids' = {}
    /\ pending_ids' = << >>
    /\ to_process' = << >>
    /\ pc' = [i \in Slots |-> "idle"]
    /\ res' = [i \in Slots |-> NoResult]
    /\ failAt' = [i \in Slots |-> "none"]
    /\ passed' = [i \in Slots |-> {}]
    /\ clobbered' = [i \in Slots |-> NoInfo]
    /\ order' = << >>
    /\ early' = {}
    /\ results' = << >>
    /\ faults' = 0
    /\ UNCHANGED << all_ids, amount, workers, fs, Aside >>

\* whether a collaborator call succeeds: either way, while the run's
\* failures are below the bound
Outcomes == IF faults < MaxFaults THEN BOOLEAN ELSE { TRUE }

Next ==
    \/ UsageError
    \/ BackendFails
    \/ Exit
    \/ ExitUncaught
    \/ ListingFails
    \/ Discover
    \/ \E hit \in 0..Min(ProbeLimit, Len(all_ids)) : ProbeChannel(hit)
    \/ Plan
    \/ DispatchSequential
    \/ DispatchParallel
    \/ \E i \in Slots : SequentialCall(i)
    \/ \E i \in Slots : SequentialAppend(i)
    \/ SequentialReturn
    \/ \E i \in Slots : WorkerStart(i)
    \/ AsCompleted
    \/ \E i \in Slots : Collect(i)
    \/ ParallelReturn
    \/ \E i \in Slots, ok \in Outcomes : Fetch(i, ok)
    \/ \E i \in Slots, ok \in Outcomes : MakeDir(i, ok)
    \/ \E i \in Slots, ok \in Outcomes, kept \in BOOLEAN : WriteProvisional(i, ok, kept)
    \/ \E i \in Slots, ok \in Outcomes : Download(i, ok)
    \/ \E i \in Slots, ok \in Outcomes : Transcribe(i, ok)
    \/ \E i \in Slots, ok \in Outcomes, kept \in BOOLEAN : WriteFinal(i, ok, kept)
    \/ \E i \in Slots, ok \in Outcomes : Cleanup(i, ok)
    \/ NextRun

Spec == Init /\ [][Next]_vars

\* the threads of the pool and the main thread are scheduled by the
\* operating system, and every collaborator call returns or raises
FairSpec == Spec /\ WF_vars(Next)

(***************************************************************************)
(* output.py: sanitize called on its own, twice in a row                   *)
(***************************************************************************)
Batch == << Config, exit_code, mpc, Planning, Calls, early, results, fs >>

\* no batch is under way
BatchIdle ==
    /\ all_ids = << >>
    /\ amount = 0
    /\ workers = 1
    /\ run = 1
    /\ fs = [l \in Locs |-> EmptyDir]
    /\ prev = NoPrev
    /\ Fresh

\* a lower-case letter, an upper-case letter, a digit, the underscore and
\* two characters outside [a-z0-9_]
Alphabet == { "a", "B", "1", "_", "-", " " }

\* every string over Alphabet of up to n characters
Strings(n) == UNION { [1..k -> Alphabet] : k \in 0..n }

SanitizeInit ==
    /\ BatchIdle
    /\ text \in Strings(MaxName)
    /\ clean = << >>
    /\ again = << >>
    /\ spc = "name"
    /\ tree = << >>
    /\ visited = {}
    /\ ids = {}
    /\ fetched = << >>
    /\ probes = << >>
    /\ channel_name = << >>
    /\ video_meta = << >>
    /\ out = << >>

\* sanitize(text)
SanitizeOnce ==
    /\ spc = "name"
    /\ clean' = sanitize(text)
    /\ spc' = "once"
    /\ UNCHANGED << Batch, ProbeVars, LayoutVars, text, again, tree, visited, ids >>

\* sanitize(sanitize(text))
SanitizeTwice ==
    /\ spc = "once"
    /\ again' = sanitize(clean)
    /\ spc' = "twice"
    /\ UNCHANGED << Batch, ProbeVars, LayoutVars, text, clean, tree, visited, ids >>

SanitizeNext == SanitizeOnce \/ SanitizeTwice

SanitizeSpec == SanitizeInit /\ [][SanitizeNext]_vars

(***************************************************************************)
(* output.py: get_transcribed_ids called on its own on a directory tree    *)
(***************************************************************************)
\* the sidecar files of the tree: base_dir/v1/info.yaml,
\* base_dir/v2/deep/info.yaml and base_dir/v1/info.txt below the directory
\* that is scanned, and an info.yaml in a directory beside it
YamlBelow == { "y1", "y2" }
TxtBelow == { "t1" }

\* the lines of a legacy info.txt: an id line with and without quotes, an
\* id line with an empty value, and a line of another key
QuotedId(v) == IdPrefix \o << "\"" >> \o v \o << "\"" >>
BareId(v) == IdPrefix \o v
EmptyIdLine == IdPrefix \o << "\"", "\"" >>
TitleLine(v) == << "t", "i", "t", "l", "e", ":", " " >> \o v

LineSet == { QuotedId(IdC), BareId(IdD), EmptyIdLine, TitleLine(IdA) }

NoTxt == [state |-> "none", lines |-> << >>]
UnreadableTxt == [state |-> "unreadable", lines |-> << >>]

YamlFiles == { NoInfo, Unreadable, Malformed, Scalar, NoIdMapping,
               InfoRecord(VideoInfo(IdA), FALSE), InfoRecord(VideoInfo(IdB), TRUE) }

TxtFiles ==
    { NoTxt, UnreadableTxt } \cup
    { [state |-> "lines", lines |-> l] : l \in UNION { [1..n -> LineSet] : n \in 0..MaxLines } }

\* a tree whose scanned directory exists, or one without it
Trees ==
    [root : { TRUE }, y1 : YamlFiles, y2 : YamlFiles, t1 : TxtFiles,
     y3 : { NoInfo, InfoRecord(VideoInfo(IdD), TRUE) }]
    \cup
    [root : { FALSE }, y1 : { NoInfo }, y2 : { NoInfo }, t1 : { NoTxt },
     y3 : { NoInfo, InfoRecord(VideoInfo(IdD), TRUE) }]

ScanInit ==
    /\ BatchIdle
    /\ text = << >>
    /\ clean = << >>
    /\ again = << >>
    /\ tree \in Trees
    /\ spc = "call"
    /\ visited = {}
    /\ ids = {}
    /\ fetched = << >>
    /\ probes = << >>
    /\ channel_name = << >>
    /\ video_meta = << >>
    /\ out = << >>

\* what rglob("info.yaml") and rglob("info.txt") find below base_dir
FoundYaml == { f \in YamlBelow : tree[f].state # "none" }
FoundTxt == { f \in TxtBelow : tree[f].state # "none" }

\* lines 57-59: ids = set(); a base_dir that is no directory returns it
ScanStart ==
    /\ spc = "call"
    /\ ids' = {}
    /\ spc' = IF tree.root THEN "yaml" ELSE "returned"
    /\ UNCHANGED << Batch, ProbeVars, LayoutVars, text, clean, again, tree, visited >>

\* ScanYaml with the try block around the loop: the first file that
\* raises ends the scan
ScanYamlAborting(f) ==
    /\ spc = "yaml"
    /\ f \in FoundYaml \ visited
    /\ visited' = visited \cup { f }
    /\ LET r == ReadYaml(tree[f])
       IN  /\ ids' = IF r.raised THEN ids ELSE ids \cup r.ids
           /\ spc' = IF r.raised THEN "returned" ELSE spc
    /\ UNCHANGED << Batch, ProbeVars, LayoutVars, text, clean, again, tree >>

\* lines 60-66: the next info.yaml, in whatever order rglob yields them
ScanYaml(f) ==
    /\ spc = "yaml"
    /\ f \in FoundYaml \ visited
    /\ visited' = visited \cup { f }
    /\ LET r == ReadYaml(tree[f])
       IN  ids' = IF r.raised THEN ids ELSE ids \cup r.ids
    /\ UNCHANGED << Batch, ProbeVars, LayoutVars, text, clean, again, tree, spc >>

\* line 67: the first loop is over
ScanYamlEnd ==
    /\ spc = "yaml"
    /\ FoundYaml \subseteq visited
    /\ spc' = "txt"
    /\ UNCHANGED << Batch, ProbeVars, LayoutVars, text, clean, again, tree, visited, ids >>

\* lines 67-75: the next info.txt
ScanTxt(f) ==
    /\ spc = "txt"
    /\ f \in FoundTxt \ visited
    /\ visited' = visited \cup { f }
    /\ LET r == ReadTxt(tree[f])
       IN  ids' = IF r.raised THEN ids ELSE ids \cup r.ids
    /\ UNCHANGED << Batch, ProbeVars, LayoutVars, text, clean, again, tree, spc >>

\* line 76: return ids
ScanReturn ==
    /\ spc = "txt"
    /\ FoundTxt \subseteq visited
    /\ spc' = "returned"
    /\ UNCHANGED << Batch, ProbeVars, LayoutVars, text, clean, again, tree, visited, ids >>

ScanNext ==
    \/ ScanStart
    \/ \E f \in YamlBelow : ScanYaml(f)
    \/ ScanYamlEnd
    \/ \E f \in TxtBelow : ScanTxt(f)
    \/ ScanReturn

ScanSpec == ScanInit /\ [][ScanNext]_vars

(***************************************************************************)
(* channel.py: the probe loop of run_channel_mode, one fetch at a time     *)
(***************************************************************************)
\* the k-th id of a listing of distinct ids
ProbeId(k) == [j \in 1..k |-> "x"]

\* what fetch_video_info(url) does: it raises, or returns metadata whose
\* channel is a name, a name made of symbols only, or empty
Raised == [raised |-> TRUE, channel |-> << >>]
Fetched(channel) == [raised |-> FALSE, channel |-> channel]
FetchOutcomes ==
    { Raised, Fetched(<< "C", "h" >>), Fetched(<< "-", "-" >>), Fetched(<< >>) }

\* run_channel_mode has a non-empty listing and is about to probe
ProbeInit ==
    /\ \E n \in 1..MaxProbed :
          /\ all_ids = [k \in 1..n |-> ProbeId(k)]
          /\ fetched \in [1..n -> FetchOutcomes]
    /\ amount = 0
    /\ workers = 1
    /\ run = 1
    /\ fs = [l \in Locs |-> EmptyDir]
    /\ prev = NoPrev
    /\ exit_code = << >>
    /\ mpc = "probe"
    /\ ch_dir = << >>
    /\ done_ids = {}
    /\ pending_ids = << >>
    /\ to_process = << >>
    /\ pc = [i \in Slots |-> "idle"]
    /\ res = [i \in Slots |-> NoResult]
    /\ failAt = [i \in Slots |-> "none"]
    /\ passed = [i \in Slots |-> {}]
    /\ clobbered = [i \in Slots |-> NoInfo]
    /\ order = << >>
    /\ early = {}
    /\ results = << >>
    /\ faults = 0
    /\ text = << >>
    /\ clean = << >>
    /\ again = << >>
    /\ tree = << >>
    /\ spc = "probing"
    /\ visited = {}
    /\ ids = {}
    /\ probes = << >>
    /\ channel_name = << >>
    /\ video_meta = << >>
    /\ out = << >>

ProbeFrame == << Config, exit_code, done_ids, pending_ids, to_process, Calls, early, results, fs,
                 text, clean, again, tree, visited, ids, fetched, LayoutVars >>

\* ProbeFetch without the break: the loop goes on after a fetch that succeeded
ProbeFetchNoBreak(k) ==
    /\ mpc = "probe" /\ spc = "probing"
    /\ k = Len(probes) + 1
    /\ k <= Min(ProbeLimit, Len(all_ids))
    /\ probes' = Append(probes, k)
    /\ channel_name' = IF fetched[k].raised THEN channel_name ELSE fetched[k].channel
    /\ UNCHANGED << ProbeFrame, mpc, ch_dir, spc >>

\* lines 41-47: the next of all_ids[:5]; a fetch that raises is skipped, a
\* fetch that returns gives the channel name and ends the loop
ProbeFetch(k) ==
    /\ mpc = "probe" /\ spc = "probing"
    /\ k = Len(probes) + 1
    /\ k <= Min(ProbeLimit, Len(all_ids))
    /\ probes' = Append(probes, k)
    /\ IF fetched[k].raised
       THEN channel_name' = channel_name /\ spc' = spc
       ELSE channel_name' = fetched[k].channel /\ spc' = "resolved"
    /\ UNCHANGED << ProbeFrame, mpc, ch_dir >>

\* line 41: all_ids[:5] is used up
ProbeExhausted ==
    /\ mpc = "probe" /\ spc = "probing"
    /\ Len(probes) = Min(ProbeLimit, Len(all_ids))
    /\ spc' = "resolved"
    /\ UNCHANGED << ProbeFrame, mpc, ch_dir, probes, channel_name >>

\* lines 48-52: ch_dir = sanitize(channel_name) or "unknown_channel", and
\* on to the ledger scan
ProbeResolve ==
    /\ mpc = "probe" /\ spc = "resolved"
    /\ ch_dir' = RootOf(channel_name)
    /\ mpc' = "scan"
    /\ spc' = "off"
    /\ UNCHANGED << ProbeFrame, probes, channel_name >>

ProbeNext ==
    \/ \E k \in 1..ProbeLimit : ProbeFetch(k)
    \/ ProbeExhausted
    \/ ProbeResolve

ProbeSpec == ProbeInit /\ [][ProbeNext]_vars

(***************************************************************************)
(* output.py: VideoOutputDir called on its own                             *)
(***************************************************************************)
\* ids as fetch_video_info can return them: with letters and digits, made
\* of the two other characters an id can hold, and the "" of a missing id
LayoutIds == { IdA, IdC, << "-", "_" >>, << >> }

LayoutInit ==
    /\ BatchIdle
    /\ text = << >>
    /\ clean = << >>
    /\ again = << >>
    /\ tree = << >>
    /\ spc = "meta"
    /\ visited = {}
    /\ ids = {}
    /\ fetched = << >>
    /\ probes = << >>
    /\ channel_name = << >>
    /\ video_meta \in [title : Strings(MaxName), id : LayoutIds,
                  channel : { << "C", "h" >>, << "-", "-" >> }]
    /\ out = << >>

\* lines 32-39: VideoOutputDir(base_dir, meta).path, below base_dir
MakeOutputDir ==
    /\ spc = "meta"
    /\ out' = OutPath(video_meta)
    /\ spc' = "made"
    /\ UNCHANGED << Batch, ProbeVars, text, clean, again, tree, visited, ids, video_meta >>

LayoutNext == MakeOutputDir

LayoutSpec == LayoutInit /\ [][LayoutNext]_vars

(***************************************************************************)
(* Properties                                                              *)
(***************************************************************************)
\* the run has computed its plan
AfterPlan ==
    \/ mpc \in {"dispatch", "sequential", "submitted", "collect"}
    \/ mpc = "returned" /\ all_ids # << >>

Range(s) == { s[k] : k \in 1..Len(s) }
PositionIn(s, x) == CHOOSE k \in 1..Len(s) : s[k] = x

\* C1: transcribe_single never raises; a call in which a collaborator
\* failed returns a TranscribeResult with success = false, and a call in
\* which none failed returns success = true.
C1_NeverRaises ==
    \A i \in Slots :
        /\ pc[i] # "raised"
        /\ pc[i] = "done" /\ failAt[i] # "none" => ~res[i].success

C1_Witness ==
    \E i \in Planned : pc[i] = "done" /\ failAt[i] = "unlink" /\ ~res[i].success

\* C2 as stated: run_channel_mode never ends in an exception, whichever
\* collaborator below it fails.
C2_NeverFails == mpc # "raised"

\* C2 amended: the only way run_channel_mode ends in an exception is a
\* failure of the channel listing; no failure of a probe, of the ledger
\* scan or of a pipeline step does it.
C2_OnlyListingRaises ==
    [][mpc' = "raised" /\ mpc # "raised" => mpc = "start"]_vars

\* a run that returned its results although every probe failed and a
\* pipeline failed
C2_Witness ==
    /\ mpc = "returned"
    /\ IdD \notin Range(all_ids)
    /\ ch_dir = UnknownChannel
    /\ \E k \in 1..Len(results) : ~results[k].success

\* C3: the pending sequence is the discovery list without the ids of the
\* ledger scan, in discovery order; no done id is planned, and
\* len(pending) + len(done /\ discovered) = len(discovered).
C3_PendingIsDiscoveredMinusDone ==
    AfterPlan =>
        /\ \A k \in 1..Len(pending_ids) :
              pending_ids[k] \in Range(all_ids) \ done_ids
        /\ \A v \in Range(all_ids) \ done_ids : v \in Range(pending_ids)
        /\ \A j, k \in 1..Len(pending_ids) :
              j < k => PositionIn(all_ids, pending_ids[j]) < PositionIn(all_ids, pending_ids[k])
        /\ Len(pending_ids) + Cardinality(done_ids \cap Range(all_ids)) = Len(all_ids)
        /\ \A i \in Planned : to_process[i] \notin done_ids

\* three discovered ids of which one is done: the other two are pending
C3_Witness ==
    /\ AfterPlan
    /\ Len(all_ids) = 3
    /\ Cardinality(done_ids \cap Range(all_ids)) = 1
    /\ Len(pending_ids) = 2
    /\ all_ids[1] \in done_ids

\* no two discovered items share an output directory
DistinctPaths ==
    \A u, v \in Range(all_ids) :
        u # v => OutPath(VideoInfo(u)) # OutPath(VideoInfo(v))

\* every discovered item's output directory lies in the scanned directory
UnderRoot == \A v \in Range(all_ids) : ChDir(VideoInfo(v)) = ch_dir

\* C4 as stated: without a cap, the run after a run that returned hands no
\* item to the pipeline, whatever the outcomes of the first run's items.
C4_SecondRunIdle ==
    run >= 2 /\ AfterPlan /\ amount = 0 /\ prev.returned => to_process = << >>

\* C4 amended: without a cap, the run after a run that returned hands no
\* item to the pipeline, provided that in the first run no item failed at
\* the metadata fetch, the directory creation or a record write, that the
\* discovered items have pairwise distinct output directories, and that
\* these lie in the directory the second run scans; failures of the
\* download, the engine or the cleanup do not matter.
C4_SecondRunIdleAfterRecorded ==
    /\ run >= 2 /\ AfterPlan /\ amount = 0
    /\ prev.returned /\ ~prev.unrecorded
    /\ DistinctPaths /\ UnderRoot
    => to_process = << >> /\ mpc = "returned"

\* a second run with nothing to do after a first run of two items, one of
\* which failed after its provisional record was written
C4_Witness ==
    /\ run = 2 /\ AfterPlan /\ amount = 0
    /\ prev.returned /\ ~prev.unrecorded /\ prev.late
    /\ DistinctPaths /\ UnderRoot
    /\ Len(all_ids) >= 2
    /\ to_process = << >>

\* C5: with amount > 0 and more than amount pending ids, the planned batch
\* is the first amount pending ids, in order; otherwise it is the whole
\* pending sequence.
C5_Cap ==
    AfterPlan =>
        IF amount > 0 /\ Len(pending_ids) > amount
        THEN /\ Len(to_process) = amount
             /\ \A k \in 1..amount : to_process[k] = pending_ids[k]
        ELSE to_process = pending_ids

C5_Witness ==
    /\ mpc = "dispatch"
    /\ amount = 2
    /\ Len(pending_ids) = 3
    /\ to_process = << pending_ids[1], pending_ids[2] >>

\* C6: a final record that a pipeline execution found on disk is still
\* there, final and with the same id, when that execution returns a failure.
C6_FinalRecordsSurviveFailures ==
    \A i \in Planned :
        pc[i] = "done" /\ ~res[i].success /\ clobbered[i].state = "final"
            => fs[Path(i)].info = clobbered[i]

\* the calls that hold an output directory
InDirectory == { i \in Planned : pc[i] \in {"write1", "download", "transcribe", "write2", "unlink"} }

\* C7: two calls for distinct ids that run at the same time have different
\* output directories.
C7_DistinctDirectories ==
    \A i, j \in InDirectory :
        to_process[i] # to_process[j] => Path(i) # Path(j)

\* C8: in parallel mode every planned item was run and the returned list
\* holds exactly one result for each of them.
C8_OneResultPerItem ==
    workers > 1 /\ mpc = "returned" =>
        /\ \A i \in Planned : pc[i] = "done"
        /\ Len(results) = Len(to_process)
        /\ Collected = Planned

\* three items returned by two workers, not in submission order, one failed
C8_Witness ==
    /\ workers > 1 /\ mpc = "returned"
    /\ Len(results) = 3
    /\ results[1].item = 3
    /\ \E k \in 1..3 : ~results[k].success

\* the batch has dispatched its items and has not returned
Dispatched == mpc \in {"sequential", "submitted", "collect"}

\* C9: a batch that dispatched its items returns, and when it returns every
\* planned call has returned: none is running, none is waiting to start.
C9_RunsToCompletion ==
    /\ [](mpc = "returned" => \A i \in Planned : pc[i] = "done")
    /\ (Dispatched ~> mpc = "returned")

C9_Witness ==
    /\ mpc = "returned"
    /\ Len(to_process) = 3
    /\ \A i \in Planned : pc[i] = "done"
    /\ \E i \in Planned : failAt[i] # "none"

\* C10: in sequential mode a call starts only when the calls of all earlier
\* items have returned, the k-th result is the k-th planned item's, and the
\* returned list has a result for every planned item, failed or not.
C10_SequentialOrder ==
    workers <= 1 =>
        /\ \A i, j \in Planned : i < j /\ pc[j] # "idle" => pc[i] = "done"
        /\ \A k \in 1..Len(results) : results[k].item = k
        /\ mpc = "returned" => Len(results) = Len(to_process)

\* a sequential run of three items whose first item failed
C10_Witness ==
    /\ workers <= 1 /\ mpc = "returned"
    /\ Len(results) = 3
    /\ ~results[1].success /\ results[2].success /\ results[3].success

\* the collaborator calls a call of transcribe_single has made so far
Invoked(i) == passed[i] \cup ({ failAt[i] } \ { "none" })

\* C11: a call whose metadata fetch fails returns success = false at once:
\* the step that takes it from the fetch to its return leaves the output
\* tree as it was, and the call has created no directory, written no
\* record, and invoked neither the download nor the engine.
C11_FetchFailureChangesNothing ==
    /\ [](\A i \in Planned : failAt[i] = "fetch" =>
              /\ pc[i] = "done" /\ ~res[i].success
              /\ Invoked(i) = { "fetch" })
    /\ [][\A i \in Slots : failAt[i] = "none" /\ failAt'[i] = "fetch" => fs' = fs]_vars

\* a lone item whose fetch failed: the output tree holds nothing at all
C11_Witness ==
    /\ run = 1 /\ Len(to_process) = 1
    /\ pc[1] = "done" /\ failAt[1] = "fetch" /\ ~res[1].success
    /\ \A l \in Locs : fs[l] = EmptyDir

\* C12: in one batch run no id is planned twice, a call that has returned
\* is never started again, and the list of results never holds more than
\* one result of a planned item.
C12_AtMostOncePerItem ==
    /\ [](\A i, j \in Planned : i # j => to_process[i] # to_process[j])
    /\ [](\A j, k \in 1..Len(results) : j # k => results[j].item # results[k].item)
    /\ [][\A i \in Slots : run' = run /\ pc[i] = "done" => pc'[i] = "done"]_vars
    /\ [][\A i \in Slots : run' = run /\ pc[i] \notin {"idle", "queued"} => pc'[i] \notin {"idle", "queued", "fetch"} \/ pc'[i] = pc[i]]_vars

\* a run of three items that returned after its second item had failed
C12_Witness ==
    /\ mpc = "returned" /\ Len(to_process) = 3
    /\ failAt[2] # "none" /\ pc[2] = "done"
    /\ Len(results) = 3

\* some item of the returned list failed
SomeFailed == \E k \in 1..Len(results) : ~results[k].success

\* C13 as stated: the exit status is 1 exactly when an item failed or the
\* backend or model could not be resolved, and 0 in every other case.
C13_ExitCode ==
    exit_code # << >> =>
        exit_code = IF mpc = "nobackend" \/ SomeFailed THEN << 1 >> ELSE << 0 >>

\* C13 amended: the exit status is 1 exactly when an item failed, the
\* backend or model could not be resolved, or the channel listing raised;
\* it is 2 when the arguments are rejected, and 0 in every other case,
\* among them an empty discovery and a run with nothing pending.
C13_ExitCodeWithListing ==
    exit_code # << >> =>
        exit_code = IF mpc = "usage" THEN << 2 >>
                    ELSE IF mpc \in {"nobackend", "raised"} \/ SomeFailed THEN << 1 >>
                    ELSE << 0 >>

\* status 1 after a run in which one item succeeded and one failed
C13_Witness ==
    /\ exit_code = << 1 >> /\ mpc = "returned"
    /\ \E k \in 1..Len(results) : results[k].success
    /\ SomeFailed

\* C14: an empty discovery returns the empty list in one step, without a
\* probe, a scan or a call; a scan that finds every discovered id done
\* returns the empty list without a call and without a write.
C14_NothingToDo ==
    /\ [][mpc = "start" /\ all_ids = << >> /\ mpc' \notin {"start", "raised", "usage", "nobackend"}
            => mpc' = "returned" /\ UNCHANGED << ch_dir, done_ids, pc, passed, failAt, results, fs >>]_vars
    /\ [][mpc = "scan" /\ pending_ids' = << >>
            => mpc' = "returned" /\ UNCHANGED << pc, passed, failAt, results, fs >>]_vars
    /\ [](mpc = "returned" /\ (all_ids = << >> \/ pending_ids = << >>) =>
              /\ results = << >>
              /\ \A i \in Slots : pc[i] = "idle" /\ Invoked(i) = {})

\* a second run that found both discovered ids in the ledger
C14_Witness ==
    /\ run = 2 /\ mpc = "returned"
    /\ Len(all_ids) = 2 /\ pending_ids = << >> /\ results = << >>
    /\ Cardinality(done_ids) = 2

\* the planned items of this run have pairwise distinct output directories
DistinctPlanned == \A i, j \in Planned : i # j => Path(i) # Path(j)

\* the download of call i has started and the engine has not returned, or
\* the call ended with a failure of one of the two
Midway(i) ==
    \/ pc[i] \in {"download", "transcribe"}
    \/ pc[i] = "done" /\ failAt[i] \in {"download", "transcribe"}

\* C17 as stated: when the planned items have pairwise distinct output
\* directories, an item whose download has started is in the ledger scan of
\* the run's channel directory, and an item that failed at the download or
\* the engine is not pending in the next run.
C17_WriteBeforeWork ==
    /\ DistinctPlanned =>
          \A i \in Planned : Midway(i) => to_process[i] \in get_transcribed_ids(fs, ch_dir)
    /\ run >= 2 /\ AfterPlan /\ prev.returned /\ prev.distinct =>
          \A v \in prev.midway : v \notin Range(pending_ids)

\* C18: a record becomes final only by the final write of a call whose
\* engine call returned without an error, and a call returns success only
\* after its final write returned without an error.
C18_FinalOnlyAfterEngine ==
    /\ [][\A l \in Locs :
             fs'[l].info.state = "final" /\ fs'[l].info # fs[l].info
                 => \E i \in Planned : /\ pc[i] = "write2" /\ Path(i) = l
                                       /\ fs'[l].info = InfoRecord(Meta(i), TRUE)
                                       /\ "transcribe" \in passed[i]]_vars
    /\ [](\A i \in Planned :
              /\ pc[i] \in {"write2", "unlink"} => "transcribe" \in passed[i]
              /\ pc[i] = "done" /\ res[i].success => { "transcribe", "write2" } \subseteq passed[i])

\* a call that returned success and whose final record is on disk
C18_Witness ==
    \E i \in Planned :
        /\ pc[i] = "done" /\ res[i].success
        /\ fs[Path(i)].info = InfoRecord(Meta(i), TRUE)

\* C19: the result of a call whose fetch failed has an empty id and title
\* and success = false; the result of a call that failed at any later step
\* has success = false and the id and title the fetch returned; so has,
\* with success = true, the result of a call in which nothing failed.
C19_FailureAttribution ==
    \A i \in Planned :
        pc[i] = "done" =>
            IF failAt[i] = "fetch"
            THEN res[i] = [success |-> FALSE, video_id |-> << >>, title |-> << >>]
            ELSE /\ res[i].video_id = to_process[i]
                 /\ res[i].title = VideoInfo(to_process[i]).title
                 /\ res[i].success = (failAt[i] = "none")

\* a call that failed when it created its directory, with its id and title
C19_Witness ==
    \E i \in Planned :
        /\ pc[i] = "done" /\ failAt[i] = "mkdir"
        /\ res[i].video_id = to_process[i] /\ res[i].title # << >>

\* C20: with keep_audio off, a call that downloaded its audio and has
\* returned, with success or failure, has left no audio file in its output
\* directory (the planned items having pairwise distinct directories).
C20_NoAudioLeftBehind ==
    ~keep_audio /\ DistinctPlanned =>
        \A i \in Planned :
            pc[i] = "done" /\ "download" \in passed[i] => ~fs[Path(i)].audio

\* the ids a sidecar carries: the id of an info.yaml that is a mapping with
\* an id key; the values of the id lines of an info.txt
CarriedYaml(file) ==
    IF file.state \in {"provisional", "final"} THEN { file.id } ELSE {}

CarriedTxt(file) ==
    IF file.state # "lines" THEN {}
    ELSE { v \in Ids : \E k \in 1..Len(file.lines) :
                          file.lines[k] \in { QuotedId(v), BareId(v) } }

\* C15: the scan returns the union of the ids carried by the info.yaml and
\* info.txt files below the scanned directory, at any depth; a file that
\* cannot be read or parsed adds nothing and takes nothing away; files
\* outside the directory do not count; a missing directory gives the empty
\* set.
C15_ScanIsUnionOfSidecars ==
    /\ [](spc = "returned" =>
              ids = IF tree.root
                    THEN CarriedYaml(tree.y1) \cup CarriedYaml(tree.y2) \cup CarriedTxt(tree.t1)
                    ELSE {})
    /\ [][ids \subseteq ids']_vars

\* a scan of a malformed info.yaml, a final info.yaml deeper down and an
\* info.txt, with another record beside the scanned directory
C15_Witness ==
    /\ spc = "returned"
    /\ tree.root
    /\ tree.y1 = Malformed
    /\ tree.y2 = InfoRecord(VideoInfo(IdB), TRUE)
    /\ tree.t1 = [state |-> "lines", lines |-> << TitleLine(IdA), QuotedId(IdC) >>]
    /\ tree.y3 = InfoRecord(VideoInfo(IdD), TRUE)
    /\ ids = { IdB, IdC }

\* C16: sanitize applied to its own result gives that result again.
C16_SanitizeIdempotent ==
    spc = "twice" => again = clean

\* a name of three characters that sanitize changes and does not empty
C16_Witness ==
    /\ spc = "twice"
    /\ Len(text) = 3
    /\ clean # text /\ clean # << >>
    /\ again = clean

\* C21: in parallel mode at most `workers` calls of transcribe_single are
\* in progress at any moment.
C21_BoundedPool ==
    workers > 1 => Cardinality(Running) <= workers

\* two workers busy while a third planned item waits in the queue
C21_Witness ==
    /\ workers = 2
    /\ Cardinality(Running) = 2
    /\ Len(to_process) = 3 /\ pc[3] = "queued"

\* the place of planned item i among the calls in the order they returned
Finished(i) == CHOOSE k \in 1..Len(order) : order[k] = i

\* C23 as stated: in parallel mode the results are in the order in which
\* the calls returned.
C23_CompletionOrder ==
    workers > 1 =>
        \A j, k \in 1..Len(results) :
            j < k => Finished(results[j].item) < Finished(results[k].item)

\* C23 amended: in parallel mode the results of the calls that returned
\* after as_completed was entered are in the order in which those calls
\* returned, and they follow the results of the calls that had returned
\* before, which come in no particular order.
C23_CompletionOrderOfLate ==
    workers > 1 =>
        \A j, k \in 1..Len(results) :
            j < k =>
                /\ results[j].item \notin early /\ results[k].item \notin early
                    => Finished(results[j].item) < Finished(results[k].item)
                /\ ~(results[j].item \notin early /\ results[k].item \in early)

\* item 2 had returned when as_completed was entered; items 3 and 1
\* returned later, in that order
C23_Witness ==
    /\ workers > 1 /\ mpc = "returned"
    /\ early = { 2 }
    /\ order = << 2, 3, 1 >>
    /\ Len(results) = 3
    /\ results[1].item = 2 /\ results[2].item = 3 /\ results[3].item = 1

\* the calls of this run that carry a worker tag: all those submitted
Tagged == IF workers > 1 /\ mpc \in {"submitted", "collect", "returned"} THEN Planned ELSE {}

\* C25 as stated: in parallel mode every call carries a tag in 1..workers,
\* and no two calls in progress at the same time carry the same tag.
C25_TagsIdentifyWorkers ==
    /\ \A i \in Tagged : WorkerId(i) \in 1..workers
    /\ \A i, j \in Tagged \cap Running : i # j => WorkerId(i) # WorkerId(j)

\* C25 amended: in parallel mode every call carries a tag in 1..workers,
\* given round-robin in submission order: the first item has tag 1 and
\* each next item the next tag, back to 1 after `workers`.  (Two calls in
\* progress at the same time may carry the same tag.)
C25_TagsRoundRobin ==
    \A i \in Tagged :
        /\ WorkerId(i) \in 1..workers
        /\ i = 1 => WorkerId(i) = 1
        /\ i > 1 => WorkerId(i) = IF WorkerId(i - 1) = workers THEN 1 ELSE WorkerId(i - 1) + 1

\* items 1 and 3 in progress at the same time, both with tag 1
C25_Witness ==
    /\ workers = 2
    /\ { 1, 3 } \subseteq Tagged \cap Running
    /\ pc[2] = "done"
    /\ WorkerId(1) = 1 /\ WorkerId(3) = 1

\* the positions of all_ids[:5] and those whose fetch returns
ProbeRange == 1..Min(ProbeLimit, Len(all_ids))
ProbeHits == { k \in ProbeRange : ~fetched[k].raised }
FirstHit == CHOOSE k \in ProbeHits : \A m \in ProbeHits : k <= m

\* C22: the probe loop fetches the listed ids in order, one after the
\* other, never more than five; it ends at the first fetch that returns;
\* the channel directory is the sanitized channel of that fetch, or
\* "unknown_channel" when none of the fetches returns or the sanitized
\* name is empty; whatever the fetches do, the run goes on to the scan.
C22_ProbeNeverAborts ==
    /\ mpc \in {"probe", "scan"}
    /\ mpc = "probe" => ENABLED ProbeNext
    /\ Len(probes) <= ProbeLimit
    /\ \A j \in 1..Len(probes) : probes[j] = j
    /\ \A j \in 1..(Len(probes) - 1) : fetched[j].raised
    /\ mpc = "scan" =>
          IF ProbeHits = {}
          THEN probes = [j \in ProbeRange |-> j] /\ ch_dir = UnknownChannel
          ELSE /\ Len(probes) = FirstHit
               /\ ch_dir = OrElse(sanitize(fetched[FirstHit].channel), UnknownChannel)

\* six listed ids of which only the sixth can be fetched: five probes, and
\* the fallback directory
C22_Witness ==
    /\ mpc = "scan"
    /\ Len(all_ids) = 6
    /\ \A k \in 1..5 : fetched[k].raised
    /\ fetched[6] = Fetched(<< "C", "h" >>)
    /\ probes = << 1, 2, 3, 4, 5 >>
    /\ ch_dir = UnknownChannel

\* C24 as stated: every record written by a call of this run lies in the
\* channel directory the run scanned.
C24_RecordsUnderScannedRoot ==
    \A i \in Planned : "write1" \in passed[i] => Path(i)[1] = ch_dir

\* C26: the item segment of the path VideoOutputDir makes is not empty,
\* whatever the title and the id.
C26_ItemSegmentNonEmpty ==
    spc = "made" => out[2] # << >>

====
